---- MODULE Spec2Model ----
(***************************************************************************)
(* Model of prometheus_fastapi_instrumentator/metrics.py: the label        *)
(* resolver, the five metric factories (latency, request_size,             *)
(* response_size, combined_size, full) and the instrumentation closures    *)
(* they return, recording into prometheus_client collectors.               *)
(*                                                                         *)
(* A float is modelled by an integer; float("inf") by INF, a value above   *)
(* every finite boundary of the model.  A header value is a sequence of    *)
(* one-character strings.  None is the empty sequence and a value v that   *)
(* may be None is carried as <<v>>.                                        *)
(***************************************************************************)
EXTENDS Integers, Sequences, FiniteSets, TLC

\* ------------------------------------------------------------- bounds
MaxClosures == 1       \* factory calls in Spec
MaxFactoryCalls == 2   \* factory calls in SpecReg and SpecBuckets
MaxInvocations == 2    \* closure invocations in Spec and SpecReg
MaxBuckets == 2        \* boundaries in a supplied bucket tuple
MaxThreads == 2        \* concurrent invocations in SpecConc

\* ------------------------------------------------------------- values
INF == 1000

None == <<>>
Some(v) == <<v>>

NoExc == "none"

CONTENT_LENGTH == "Content-Length"

\* ----------------------------------------------------- int(str), python
Digits == {"0", "1", "2", "3", "4", "5", "6", "7", "8", "9"}

DigitVal(c) ==
  CASE c = "0" -> 0 [] c = "1" -> 1 [] c = "2" -> 2 [] c = "3" -> 3
    [] c = "4" -> 4 [] c = "5" -> 5 [] c = "6" -> 6 [] c = "7" -> 7
    [] c = "8" -> 8 [] c = "9" -> 9

RECURSIVE LStrip(_)
LStrip(s) == IF Len(s) > 0 /\ s[1] = " " THEN LStrip(Tail(s)) ELSE s

RECURSIVE RStrip(_)
RStrip(s) ==
  IF Len(s) > 0 /\ s[Len(s)] = " " THEN RStrip(SubSeq(s, 1, Len(s) - 1)) ELSE s

\* digits, single underscores allowed between two digits
ValidDigits(s) ==
  /\ Len(s) > 0
  /\ s[1] \in Digits
  /\ s[Len(s)] \in Digits
  /\ \A i \in 1..Len(s) : s[i] \in Digits \cup {"_"}
  /\ \A i \in 1..(Len(s) - 1) : ~(s[i] = "_" /\ s[i + 1] = "_")

RECURSIVE DigitsValue(_, _)
DigitsValue(s, acc) ==
  IF Len(s) = 0 THEN acc
  ELSE IF s[1] = "_" THEN DigitsValue(Tail(s), acc)
  ELSE DigitsValue(Tail(s), 10 * acc + DigitVal(s[1]))

\* int(s) for a str s: [ok |-> FALSE] stands for ValueError
IntParse(s) ==
  LET t == RStrip(LStrip(s))
      signed == Len(t) > 0 /\ t[1] \in {"+", "-"}
      body == IF signed THEN Tail(t) ELSE t
      mag == DigitsValue(body, 0)
  IN IF ValidDigits(body)
     THEN [ok |-> TRUE, value |-> IF signed /\ t[1] = "-" THEN 0 - mag ELSE mag]
     ELSE [ok |-> FALSE, value |-> 0]

\* bool(s) for s that is None or a str (here: None or <<str>>)
Truthy(opt) == opt /= None /\ Len(opt[1]) > 0

\* headers.get("Content-Length", None)
HeadersGet(headers) ==
  IF CONTENT_LENGTH \in DOMAIN headers THEN Some(headers[CONTENT_LENGTH]) ELSE None

\* Mutant for C8: "status" paired with the attribute of "method"
build_label_attribute_names_swapped(should_include_handler, should_include_method, should_include_status) ==
  LET l1 == IF should_include_handler THEN <<"handler">> ELSE <<>>
      a1 == IF should_include_handler THEN <<"modified_handler">> ELSE <<>>
      l2 == IF should_include_method THEN l1 \o <<"method">> ELSE l1
      a2 == IF should_include_method THEN a1 \o <<"modified_status">> ELSE a1
      l3 == IF should_include_status THEN l2 \o <<"status">> ELSE l2
      a3 == IF should_include_status THEN a2 \o <<"method">> ELSE a2
  IN [label_names |-> l3, info_attribute_names |-> a3]

\* ------------------------------------------------------ label resolver
build_label_attribute_names(should_include_handler, should_include_method, should_include_status) ==
  LET l1 == IF should_include_handler THEN <<"handler">> ELSE <<>>
      a1 == IF should_include_handler THEN <<"modified_handler">> ELSE <<>>
      l2 == IF should_include_method THEN l1 \o <<"method">> ELSE l1
      a2 == IF should_include_method THEN a1 \o <<"method">> ELSE a1
      l3 == IF should_include_status THEN l2 \o <<"status">> ELSE l2
      a3 == IF should_include_status THEN a2 \o <<"modified_status">> ELSE a2
  IN [label_names |-> l3, info_attribute_names |-> a3]

\* ---------------------------------------------- prometheus_client side
\* The default registry maps a collector's name to the collector.  A
\* collector keeps one child series per tuple of label values; an
\* unlabelled collector is its own single series, keyed by the empty tuple.
ZeroChild(type) ==
  IF type = "counter" THEN [value |-> 0] ELSE [count |-> 0, sum |-> 0]

NoChildren == [k \in {} |-> ZeroChild("summary")]

NewCollector(type, labelnames, buckets) ==
  [type |-> type, labelnames |-> labelnames, buckets |-> buckets,
   children |-> IF labelnames = <<>> THEN (<<>> :> ZeroChild(type)) ELSE NoChildren]

\* Constructing a collector registers it; a name already registered raises
\* ValueError and registers nothing.
Register(reg, name, collector) ==
  IF name \in DOMAIN reg
  THEN [exc |-> "ValueError", registry |-> reg]
  ELSE [exc |-> NoExc, registry |-> reg @@ (name :> collector)]

\* Histogram(name, doc, labelnames=..., buckets=...): fewer than two
\* boundaries raise ValueError before anything is registered.
Histogram(reg, name, labelnames, buckets) ==
  IF Len(buckets) < 2
  THEN [exc |-> "ValueError", registry |-> reg]
  ELSE Register(reg, name, NewCollector("histogram", labelnames, buckets))

\* Summary(name, doc, labelnames=...)
Summary(reg, name, labelnames) ==
  Register(reg, name, NewCollector("summary", labelnames, <<>>))

\* Counter(name, doc)
Counter(reg, name) ==
  Register(reg, name, NewCollector("counter", <<>>, <<>>))

\* One call on a collector made by a closure:
\*   labels  - METRIC.labels(*values): selects the child, creating it empty
\*   observe - .observe(value) on a summary or histogram series
\*   inc     - .inc(value) on a counter
Op(op, metric, labels, value) ==
  [op |-> op, metric |-> metric, labels |-> labels, value |-> value]

\* Mutant for C9: an update computed from a stale (empty) series, the
\* series' current content lost
ApplyOpLost(reg, o) ==
  LET ch == reg[o.metric].children
      cur == IF o.labels \in DOMAIN ch THEN ch[o.labels]
             ELSE ZeroChild(reg[o.metric].type)
      new == CASE o.op = "labels" -> cur
               [] o.op = "observe" -> [count |-> 1, sum |-> o.value]
               [] o.op = "inc" -> [value |-> o.value]
  IN [reg EXCEPT ![o.metric].children =
        [k \in DOMAIN ch \cup {o.labels} |-> IF k = o.labels THEN new ELSE ch[k]]]

ApplyOp(reg, o) ==
  LET ch == reg[o.metric].children
      cur == IF o.labels \in DOMAIN ch THEN ch[o.labels]
             ELSE ZeroChild(reg[o.metric].type)
      new == CASE o.op = "labels" -> cur
               [] o.op = "observe" -> [count |-> cur.count + 1, sum |-> cur.sum + o.value]
               [] o.op = "inc" -> [value |-> cur.value + o.value]
  IN [reg EXCEPT ![o.metric].children =
        [k \in DOMAIN ch \cup {o.labels} |-> IF k = o.labels THEN new ELSE ch[k]]]

RECURSIVE ApplyOps(_, _)
ApplyOps(reg, ops) ==
  IF Len(ops) = 0 THEN reg ELSE ApplyOps(ApplyOp(reg, ops[1]), Tail(ops))

\* ------------------------------------------------------------ factories
\* A factory call yields [exc, registry, closure, handed]: the exception it
\* ends in (NoExc: it returns), the registry it leaves, the closure
\* returned (None when it raises) and the bucket sequences it passed to the
\* Histogram constructor.
Raised(exc, reg, handed) ==
  [exc |-> exc, registry |-> reg, closure |-> None, handed |-> handed]

Closure(kind, metric, names) ==
  [kind |-> kind, metric |-> metric, label_names |-> names.label_names,
   info_attribute_names |-> names.info_attribute_names]

Returned(reg, closure, handed) ==
  [exc |-> NoExc, registry |-> reg, closure |-> Some(closure), handed |-> handed]

\* Mutant for C6: infinity appended whatever the last boundary
AppendInfAlways(buckets) == buckets \o <<INF>>

\* if buckets[-1] != float("inf"): buckets = buckets + (float("inf"),)
\* (the caller has checked that buckets[-1] exists)
AppendInf(buckets) ==
  IF buckets[Len(buckets)] /= INF THEN buckets \o <<INF>> ELSE buckets

\* Mutant for C7: the constructor's failure swallowed, a closure returned
latency_swallowed(metric_name, should_include_handler, should_include_method, should_include_status, buckets, reg) ==
  IF Len(buckets) = 0 THEN Raised("IndexError", reg, <<>>)
  ELSE
    LET b == AppendInf(buckets)
        names == build_label_attribute_names(should_include_handler,
                   should_include_method, should_include_status)
        METRIC == Histogram(reg, metric_name, names.label_names, b)
    IN Returned(METRIC.registry, Closure("latency", metric_name, names), <<b>>)

latency(metric_name, should_include_handler, should_include_method, should_include_status, buckets, reg) ==
  IF Len(buckets) = 0 THEN Raised("IndexError", reg, <<>>)
  ELSE
    LET b == AppendInf(buckets)
        names == build_label_attribute_names(should_include_handler,
                   should_include_method, should_include_status)
        METRIC == IF names.label_names /= <<>>
                  THEN Histogram(reg, metric_name, names.label_names, b)
                  ELSE Histogram(reg, metric_name, <<>>, b)
    IN IF METRIC.exc /= NoExc THEN Raised(METRIC.exc, METRIC.registry, <<b>>)
       ELSE Returned(METRIC.registry, Closure("latency", metric_name, names), <<b>>)

request_size(metric_name, should_include_handler, should_include_method, should_include_status, reg) ==
  LET names == build_label_attribute_names(should_include_handler,
                 should_include_method, should_include_status)
      METRIC == IF names.label_names /= <<>>
                THEN Summary(reg, metric_name, names.label_names)
                ELSE Summary(reg, metric_name, <<>>)
  IN IF METRIC.exc /= NoExc THEN Raised(METRIC.exc, METRIC.registry, <<>>)
     ELSE Returned(METRIC.registry, Closure("request_size", metric_name, names), <<>>)

response_size(metric_name, should_include_handler, should_include_method, should_include_status, reg) ==
  LET names == build_label_attribute_names(should_include_handler,
                 should_include_method, should_include_status)
      METRIC == IF names.label_names /= <<>>
                THEN Summary(reg, metric_name, names.label_names)
                ELSE Summary(reg, metric_name, <<>>)
  IN IF METRIC.exc /= NoExc THEN Raised(METRIC.exc, METRIC.registry, <<>>)
     ELSE Returned(METRIC.registry, Closure("response_size", metric_name, names), <<>>)

combined_size(metric_name, should_include_handler, should_include_method, should_include_status, reg) ==
  LET names == build_label_attribute_names(should_include_handler,
                 should_include_method, should_include_status)
      METRIC == IF names.label_names /= <<>>
                THEN Summary(reg, metric_name, names.label_names)
                ELSE Summary(reg, metric_name, <<>>)
  IN IF METRIC.exc /= NoExc THEN Raised(METRIC.exc, METRIC.registry, <<>>)
     ELSE Returned(METRIC.registry, Closure("combined_size", metric_name, names), <<>>)

TOTAL == "http_requests_total"
IN_SIZE == "http_in_bytes_total"
OUT_SIZE == "http_out_bytes_total"
LATENCY_HIGHR == "http_highr_request_duration_seconds"
LATENCY_LOWR == "http_lowr_request_duration_seconds"
LOWR_LABELNAMES == <<"method", "status", "handler">>

FullClosure ==
  [kind |-> "full", metric |-> TOTAL, label_names |-> <<>>,
   info_attribute_names |-> <<>>]

full(latency_highr_buckets, latency_lowr_buckets, reg) ==
  IF Len(latency_highr_buckets) = 0 \/ Len(latency_lowr_buckets) = 0
  THEN Raised("IndexError", reg, <<>>)
  ELSE
    LET hb == AppendInf(latency_highr_buckets)
        lb == AppendInf(latency_lowr_buckets)
        r1 == Counter(reg, TOTAL)
        r2 == Counter(r1.registry, IN_SIZE)
        r3 == Counter(r2.registry, OUT_SIZE)
        r4 == Histogram(r3.registry, LATENCY_HIGHR, <<>>, hb)
        r5 == Histogram(r4.registry, LATENCY_LOWR, LOWR_LABELNAMES, lb)
    IN IF r1.exc /= NoExc THEN Raised(r1.exc, r1.registry, <<>>)
       ELSE IF r2.exc /= NoExc THEN Raised(r2.exc, r2.registry, <<>>)
       ELSE IF r3.exc /= NoExc THEN Raised(r3.exc, r3.registry, <<>>)
       ELSE IF r4.exc /= NoExc THEN Raised(r4.exc, r4.registry, <<hb>>)
       ELSE IF r5.exc /= NoExc THEN Raised(r5.exc, r5.registry, <<hb, lb>>)
       ELSE Returned(r5.registry, FullClosure, <<hb, lb>>)

\* ------------------------------------------------------------- closures
\* An invocation yields [ops, exc]: the calls it made on collectors, in
\* order, and the exception it ends in (NoExc: it returns).
Done(ops) == [ops |-> ops, exc |-> NoExc]
Throw(ops, exc) == [ops |-> ops, exc |-> exc]

\* Mutant for C10: the label values in reverse order
LabelValuesReversed(info, info_attribute_names) ==
  [i \in 1..Len(info_attribute_names) |->
     info[info_attribute_names[Len(info_attribute_names) + 1 - i]]]

\* label_values = [getattr(info, a) for a in info_attribute_names]
LabelValues(info, info_attribute_names) ==
  [i \in 1..Len(info_attribute_names) |-> info[info_attribute_names[i]]]

\* latency.instrumentation
latency_instrumentation(c, info) ==
  IF c.label_names /= <<>>
  THEN LET label_values == LabelValues(info, c.info_attribute_names)
       IN Done(<<Op("labels", c.metric, label_values, 0),
                 Op("observe", c.metric, label_values, info.modified_duration)>>)
  ELSE Done(<<Op("observe", c.metric, <<>>, info.modified_duration)>>)

\* METRIC.labels(*label_values).observe(int(content_length)) or
\* METRIC.observe(int(content_length)), content_length a str: the child is
\* selected before int() is evaluated.
ObserveParsed(c, info, content_length) ==
  LET n == IntParse(content_length)
  IN IF c.label_names /= <<>>
     THEN LET label_values == LabelValues(info, c.info_attribute_names)
              sel == Op("labels", c.metric, label_values, 0)
          IN IF n.ok THEN Done(<<sel, Op("observe", c.metric, label_values, n.value)>>)
             ELSE Throw(<<sel>>, "ValueError")
     ELSE IF n.ok THEN Done(<<Op("observe", c.metric, <<>>, n.value)>>)
          ELSE Throw(<<>>, "ValueError")

\* Mutant for C2: a missing header taken for "0", as full does
request_size_instrumentation_zero(c, info) ==
  LET content_length == HeadersGet(info.request.headers)
  IN IF content_length /= None THEN ObserveParsed(c, info, content_length[1])
     ELSE ObserveParsed(c, info, <<"0">>)

\* request_size.instrumentation
request_size_instrumentation(c, info) ==
  LET content_length == HeadersGet(info.request.headers)
  IN IF content_length /= None THEN ObserveParsed(c, info, content_length[1])
     ELSE Done(<<>>)

\* response_size.instrumentation; info.response may be None
response_size_instrumentation(c, info) ==
  IF info.response = None THEN Throw(<<>>, "AttributeError")
  ELSE LET content_length == HeadersGet(info.response[1].headers)
       IN IF content_length /= None THEN ObserveParsed(c, info, content_length[1])
          ELSE Done(<<>>)

\* combined_size.instrumentation, lines 256-263: content_length is
\* [exc, value] with value None or <<int>>
CombinedLength(request_cl, response_cl) ==
  LET rq == IF request_cl /= None THEN IntParse(request_cl[1]) ELSE IntParse(<<>>)
      rs == IF response_cl /= None THEN IntParse(response_cl[1]) ELSE IntParse(<<>>)
  IN IF Truthy(request_cl) /\ Truthy(response_cl)
     THEN IF rq.ok /\ rs.ok THEN [exc |-> NoExc, value |-> Some(rq.value + rs.value)]
          ELSE [exc |-> "ValueError", value |-> None]
     ELSE IF Truthy(request_cl)
     THEN IF rq.ok THEN [exc |-> NoExc, value |-> Some(rq.value)]
          ELSE [exc |-> "ValueError", value |-> None]
     ELSE IF Truthy(response_cl)
     THEN IF rs.ok THEN [exc |-> NoExc, value |-> Some(rs.value)]
          ELSE [exc |-> "ValueError", value |-> None]
     ELSE [exc |-> NoExc, value |-> None]

combined_size_instrumentation(c, info) ==
  IF info.response = None THEN Throw(<<>>, "AttributeError")
  ELSE
    LET request_cl == HeadersGet(info.request.headers)
        response_cl == HeadersGet(info.response[1].headers)
        content_length == CombinedLength(request_cl, response_cl)
    IN IF content_length.exc /= NoExc THEN Throw(<<>>, content_length.exc)
       ELSE IF content_length.value /= None
       THEN IF c.label_names /= <<>>
            THEN LET label_values == LabelValues(info, c.info_attribute_names)
                 IN Done(<<Op("labels", c.metric, label_values, 0),
                           Op("observe", c.metric, label_values, content_length.value[1])>>)
            ELSE Done(<<Op("observe", c.metric, <<>>, content_length.value[1])>>)
       ELSE Done(<<>>)

\* int(headers.get("Content-Length", 0)): int(0) = 0 when the header is absent
IntOrZero(headers) ==
  LET content_length == HeadersGet(headers)
  IN IF content_length /= None THEN IntParse(content_length[1])
     ELSE [ok |-> TRUE, value |-> 0]

\* Mutant for C3: inc() called without the amount
CounterIncByOne(metric, amount) == Done(<<Op("inc", metric, <<>>, 1)>>)

\* Counter.inc(amount): a negative amount raises ValueError
CounterInc(metric, amount) ==
  IF amount < 0 THEN Throw(<<>>, "ValueError")
  ELSE Done(<<Op("inc", metric, <<>>, amount)>>)

FullStatements == 1..5

\* full.instrumentation: statement k of its five (lines 355-361)
FullStatement(k, info) ==
  CASE k = 1 -> CounterInc(TOTAL, 1)
    [] k = 2 -> LET n == IntOrZero(info.request.headers)
                IN IF n.ok THEN CounterInc(IN_SIZE, n.value)
                   ELSE Throw(<<>>, "ValueError")
    [] k = 3 -> IF info.response = None THEN Throw(<<>>, "AttributeError")
                ELSE LET n == IntOrZero(info.response[1].headers)
                     IN IF n.ok THEN CounterInc(OUT_SIZE, n.value)
                        ELSE Throw(<<>>, "ValueError")
    [] k = 4 -> Done(<<Op("observe", LATENCY_HIGHR, <<>>, info.modified_duration)>>)
    [] k = 5 -> LET label_values == <<info.method, info.modified_status,
                                      info.modified_handler>>
                IN Done(<<Op("labels", LATENCY_LOWR, label_values, 0),
                          Op("observe", LATENCY_LOWR, label_values,
                             info.modified_duration)>>)

\* statements k..5 in order, stopping at the first that raises
RECURSIVE FullFrom(_, _)
FullFrom(k, info) ==
  IF k \notin FullStatements THEN Done(<<>>)
  ELSE LET r == FullStatement(k, info)
       IN IF r.exc /= NoExc THEN r
          ELSE LET rest == FullFrom(k + 1, info)
               IN [ops |-> r.ops \o rest.ops, exc |-> rest.exc]

full_instrumentation(c, info) == FullFrom(1, info)

\* instrumentation(info) for the closure c
Instrumentation(c, info) ==
  CASE c.kind = "latency" -> latency_instrumentation(c, info)
    [] c.kind = "request_size" -> request_size_instrumentation(c, info)
    [] c.kind = "response_size" -> response_size_instrumentation(c, info)
    [] c.kind = "combined_size" -> combined_size_instrumentation(c, info)
    [] c.kind = "full" -> full_instrumentation(c, info)

\* ---------------------------------------------------------------- state
VARIABLES
  registry,     \* prometheus_client's default registry: name -> collector
  closures,     \* the instrumentation closures the factories have returned
  calls,        \* number of factory calls made
  lastCall,     \* the last factory call: its arguments and how it ended
  invocations,  \* number of closure invocations made
  last,         \* the last closure invocation: closure, Info, ops, exception
  tally,        \* per closure: what its invocations were given, summed up
  threads       \* concurrent invocations in progress

vars == <<registry, closures, calls, lastCall, invocations, last, tally, threads>>

NoCall ==
  [factory |-> "none", names |-> {}, duplicate |-> FALSE, flags |-> <<>>,
   supplied |-> <<>>, handed |-> <<>>, exc |-> NoExc, closure |-> None]

NoInvocation == [closure |-> None, info |-> None, ops |-> <<>>, exc |-> NoExc]

NoTally ==
  [n |-> 0, carried |-> 0, malformed |-> 0, sum_request |-> 0, sum_response |-> 0]

Init ==
  /\ registry = [n \in {} |-> NewCollector("counter", <<>>, <<>>)]
  /\ closures = {}
  /\ calls = 0
  /\ lastCall = NoCall
  /\ invocations = 0
  /\ last = NoInvocation
  /\ tally = [n \in {} |-> NoTally]
  /\ threads = <<>>

\* --------------------------------------------------------------- inputs
\* Info(request, response, method, modified_handler, modified_status,
\* modified_duration); response is a Response or None
Info(request, response, method, modified_handler, modified_status, modified_duration) ==
  [request |-> request, response |-> response, method |-> method,
   modified_handler |-> modified_handler, modified_status |-> modified_status,
   modified_duration |-> modified_duration]

NoHeaders == [k \in {} |-> <<>>]

HeadersOf(values) == {NoHeaders} \cup {(CONTENT_LENGTH :> v) : v \in values}

Request(headers) == [headers |-> headers]
Response(headers) == [headers |-> headers]

\* "", "12", " 7", "a", "-3"
ContentLengths ==
  {<<>>, <<"1", "2">>, <<" ", "7">>, <<"a">>, <<"-", "3">>}

Requests == {Request(h) : h \in HeadersOf(ContentLengths)}
Responses == {None} \cup {Some(Response(h)) : h \in HeadersOf(ContentLengths)}

Infos ==
  {Info(rq, rs, "GET", h, "2xx", 3) : rq \in Requests, rs \in Responses, h \in {"/a", "/b"}}

BucketValues == {1, 2, INF}

\* ascending bucket tuples of at most MaxBuckets boundaries, () included
BucketTuples ==
  {b \in UNION {[1..n -> BucketValues] : n \in 0..MaxBuckets} :
     \A i \in 1..(Len(b) - 1) : b[i] < b[i + 1]}

\* -------------------------------------------------------------- actions
\* A factory call that ended as r
Construct(factory, names, flags, supplied, r) ==
  /\ threads = <<>>
  /\ calls' = calls + 1
  /\ registry' = r.registry
  /\ closures' = IF r.closure /= None THEN closures \cup {r.closure[1]} ELSE closures
  /\ tally' = IF r.closure /= None THEN tally @@ (r.closure[1].metric :> NoTally)
              ELSE tally
  /\ lastCall' = [factory |-> factory, names |-> names,
                  duplicate |-> names \cap DOMAIN registry /= {},
                  flags |-> flags, supplied |-> supplied, handed |-> r.handed,
                  exc |-> r.exc, closure |-> r.closure]
  /\ UNCHANGED <<invocations, last, threads>>

CallLatency(metric_name, h, m, s, buckets) ==
  Construct("latency", {metric_name}, <<h, m, s>>, <<buckets>>,
            latency(metric_name, h, m, s, buckets, registry))

CallRequestSize(metric_name, h, m, s) ==
  Construct("request_size", {metric_name}, <<h, m, s>>, <<>>,
            request_size(metric_name, h, m, s, registry))

CallResponseSize(metric_name, h, m, s) ==
  Construct("response_size", {metric_name}, <<h, m, s>>, <<>>,
            response_size(metric_name, h, m, s, registry))

CallCombinedSize(metric_name, h, m, s) ==
  Construct("combined_size", {metric_name}, <<h, m, s>>, <<>>,
            combined_size(metric_name, h, m, s, registry))

FullNames == {TOTAL, IN_SIZE, OUT_SIZE, LATENCY_HIGHR, LATENCY_LOWR}

CallFull(latency_highr_buckets, latency_lowr_buckets) ==
  Construct("full", FullNames, <<>>, <<latency_highr_buckets, latency_lowr_buckets>>,
            full(latency_highr_buckets, latency_lowr_buckets, registry))

\* The Content-Length str of the request, of the response: None or <<str>>
RequestCL(info) == HeadersGet(info.request.headers)
ResponseCL(info) ==
  IF info.response = None THEN None ELSE HeadersGet(info.response[1].headers)

Parses(cl) == cl /= None /\ IntParse(cl[1]).ok
Malformed(cl) == cl /= None /\ ~IntParse(cl[1]).ok
ParsedOr0(cl) == IF Parses(cl) THEN IntParse(cl[1]).value ELSE 0

\* What the invocations of the closure c were given, summed up:
\*   n            invocations
\*   carried      (request_size, response_size) invocations whose request,
\*                resp. response, carried a Content-Length header
\*   malformed    (request_size, response_size) of those, the ones whose
\*                value int() rejects; (full) invocations with a header
\*                present whose value int() rejects or is negative
\*   sum_request  (full) sum of the requests' parsed Content-Length,
\*   sum_response  of the responses'; an absent header counts 0
Tallied(t, c, info) ==
  LET cl == IF c.kind = "request_size" THEN RequestCL(info) ELSE ResponseCL(info)
      both == {RequestCL(info), ResponseCL(info)}
  IN CASE c.kind \in {"request_size", "response_size"} ->
            [t EXCEPT !.n = @ + 1,
                      !.carried = @ + (IF cl /= None THEN 1 ELSE 0),
                      !.malformed = @ + (IF Malformed(cl) THEN 1 ELSE 0)]
       [] c.kind = "full" ->
            [t EXCEPT !.n = @ + 1,
                      !.malformed = @ + (IF \E x \in both : Malformed(x) \/ ParsedOr0(x) < 0
                                         THEN 1 ELSE 0),
                      !.sum_request = @ + ParsedOr0(RequestCL(info)),
                      !.sum_response = @ + ParsedOr0(ResponseCL(info))]
       [] OTHER -> [t EXCEPT !.n = @ + 1]

\* The middleware calls the closure c with info; an exception propagates to
\* the middleware and the calls made on collectors before it stand.
Invoke(c, info) ==
  /\ threads = <<>>
  /\ c \in closures
  /\ LET r == Instrumentation(c, info)
     IN /\ registry' = ApplyOps(registry, r.ops)
        /\ last' = [closure |-> Some(c), info |-> Some(info), ops |-> r.ops, exc |-> r.exc]
  /\ invocations' = invocations + 1
  /\ tally' = [tally EXCEPT ![c.metric] = Tallied(@, c, info)]
  /\ UNCHANGED <<closures, calls, lastCall, threads>>

DEFAULT_LATENCY == "http_request_duration_seconds"
DEFAULT_REQUEST_SIZE == "http_request_size_bytes"
DEFAULT_RESPONSE_SIZE == "http_response_size_bytes"
DEFAULT_COMBINED_SIZE == "http_combined_size_bytes"

\* Spec: every factory under its default metric name with any label flags,
\* then invocations of the returned closures with any Info.
Next ==
  \/ /\ calls < MaxClosures
     /\ \E h, m, s \in BOOLEAN : CallLatency(DEFAULT_LATENCY, h, m, s, <<1, 2>>)
  \/ /\ calls < MaxClosures
     /\ \E h, m, s \in BOOLEAN : CallRequestSize(DEFAULT_REQUEST_SIZE, h, m, s)
  \/ /\ calls < MaxClosures
     /\ \E h, m, s \in BOOLEAN : CallResponseSize(DEFAULT_RESPONSE_SIZE, h, m, s)
  \/ /\ calls < MaxClosures
     /\ \E h, m, s \in BOOLEAN : CallCombinedSize(DEFAULT_COMBINED_SIZE, h, m, s)
  \/ /\ calls < MaxClosures
     /\ CallFull(<<1, 2>>, <<1>>)
  \/ /\ invocations < MaxInvocations
     /\ \E c \in closures, info \in Infos : Invoke(c, info)

Spec == Init /\ [][Next]_vars

\* ------------------------------------------------- vocabulary of claims
IsRecording(o) == o.op \in {"observe", "inc"}

\* The observations and increments among ops, and their values, in order
Recordings(ops) == SelectSeq(ops, IsRecording)
RecordedValues(ops) == [i \in 1..Len(Recordings(ops)) |-> Recordings(ops)[i].value]

\* The recordings among ops made on the collector named metric
RecordingsOn(ops, metric) ==
  LET On(o) == IsRecording(o) /\ o.metric = metric IN SelectSeq(ops, On)

RECURSIVE SumOfCounts(_, _)
SumOfCounts(children, keys) ==
  IF keys = {} THEN 0
  ELSE LET k == CHOOSE x \in keys : TRUE
       IN children[k].count + SumOfCounts(children, keys \ {k})

\* Number of samples a summary or histogram holds, over all its series
SampleCount(collector) == SumOfCounts(collector.children, DOMAIN collector.children)

LastKind == IF last.closure = None THEN "none" ELSE last.closure[1].kind
LastInfo == last.info[1]
LastClosure == last.closure[1]

\* ------------------------------------------------------------------ C1
\* C1, restricted to Infos whose Content-Length headers all parse: after an
\* invocation of combined_size's closure, if request and response both
\* carry the header exactly one observation, the sum of the two parsed
\* values, was recorded; if exactly one carries it, exactly one
\* observation, that parsed value; if neither, nothing was done to the
\* collector.  (Violated: a response that is None raises AttributeError and
\* the request's length is not recorded.)
C1_CombinedThreeWay ==
  LastKind = "combined_size" =>
    LET rq == RequestCL(LastInfo)
        rs == ResponseCL(LastInfo)
    IN /\ (Parses(rq) /\ Parses(rs)) =>
            /\ RecordedValues(last.ops) = <<ParsedOr0(rq) + ParsedOr0(rs)>>
            /\ Recordings(last.ops)[1].metric = LastClosure.metric
       /\ (Parses(rq) /\ rs = None) => RecordedValues(last.ops) = <<ParsedOr0(rq)>>
       /\ (rq = None /\ Parses(rs)) => RecordedValues(last.ops) = <<ParsedOr0(rs)>>
       /\ (rq = None /\ rs = None) => last.ops = <<>>

\* ------------------------------------------------------------------ C2
\* C2 as stated: for request_size and response_size closures the number of
\* samples in the collector equals the number of invocations whose request
\* (resp. response) carried a Content-Length header; an invocation without
\* the header does nothing to the collector and one with the header records
\* exactly one observation, the parsed value.
C2_SamplesEqualCarried ==
  /\ \A c \in closures :
       c.kind \in {"request_size", "response_size"} =>
         SampleCount(registry[c.metric]) = tally[c.metric].carried
  /\ LastKind \in {"request_size", "response_size"} =>
       LET cl == IF LastKind = "request_size" THEN RequestCL(LastInfo)
                 ELSE ResponseCL(LastInfo)
       IN /\ cl = None => last.ops = <<>>
          /\ cl /= None => RecordedValues(last.ops) = <<ParsedOr0(cl)>>

\* C2 amended: the number of samples equals the number of invocations whose
\* request (resp. response) carried a Content-Length header that int()
\* accepts; an invocation without the header does nothing to the collector;
\* one with a header int() accepts records exactly one observation, the
\* parsed value, on the closure's collector; one with a header int()
\* rejects raises ValueError and records no observation.
C2_SamplesEqualParsed ==
  /\ \A c \in closures :
       c.kind \in {"request_size", "response_size"} =>
         SampleCount(registry[c.metric]) =
           tally[c.metric].carried - tally[c.metric].malformed
  /\ LastKind \in {"request_size", "response_size"} =>
       LET cl == IF LastKind = "request_size" THEN RequestCL(LastInfo)
                 ELSE ResponseCL(LastInfo)
       IN /\ cl = None => last.ops = <<>>
          /\ Parses(cl) =>
               /\ RecordedValues(last.ops) = <<IntParse(cl[1]).value>>
               /\ Recordings(last.ops)[1].metric = LastClosure.metric
               /\ last.exc = NoExc
          /\ Malformed(cl) => Recordings(last.ops) = <<>> /\ last.exc = "ValueError"

\* Two invocations of one size closure, the first without the header, the
\* second with it: one sample.
C2_Witness ==
  /\ LastKind \in {"request_size", "response_size"}
  /\ tally[LastClosure.metric].n = 2
  /\ tally[LastClosure.metric].carried = 1
  /\ tally[LastClosure.metric].malformed = 0
  /\ SampleCount(registry[LastClosure.metric]) = 1
  /\ Len(last.ops) > 0

C4_FullAllFive ==
  (/\ LastKind = "full"
   /\ \A cl \in {RequestCL(LastInfo), ResponseCL(LastInfo)} :
        cl /= None => Parses(cl) /\ ParsedOr0(cl) >= 0) =>
    \A name \in FullNames : Len(RecordingsOn(last.ops, name)) = 1

\* ------------------------------------------------------------------ C5
\* C5: in the closures of request_size, response_size, combined_size and
\* full, with request and response at hand, a Content-Length header the
\* closure reads that is present with a value int() rejects makes the
\* invocation end in ValueError with no observation recorded for it.
\* (Violated: combined_size takes an empty value for an absent header.)
C5_MalformedPropagates ==
  (LastKind \in {"request_size", "response_size", "combined_size", "full"}
     /\ LastInfo.response /= None) =>
    LET rq == RequestCL(LastInfo)
        rs == ResponseCL(LastInfo)
    IN /\ (LastKind = "request_size" /\ Malformed(rq)) =>
            last.exc = "ValueError" /\ Recordings(last.ops) = <<>>
       /\ (LastKind = "response_size" /\ Malformed(rs)) =>
            last.exc = "ValueError" /\ Recordings(last.ops) = <<>>
       /\ (LastKind = "combined_size" /\ (Malformed(rq) \/ Malformed(rs))) =>
            last.exc = "ValueError" /\ Recordings(last.ops) = <<>>
       /\ (LastKind = "full" /\ Malformed(rq)) =>
            last.exc = "ValueError" /\ RecordingsOn(last.ops, IN_SIZE) = <<>>
       /\ (LastKind = "full" /\ Malformed(rs)) =>
            last.exc = "ValueError" /\ RecordingsOn(last.ops, OUT_SIZE) = <<>>

\* ------------------------------------------------------------------ C8
Range(seq) == {seq[i] : i \in 1..Len(seq)}

\* The Info attribute that belongs to a label name
AttrOfLabel(label) ==
  CASE label = "handler" -> "modified_handler"
    [] label = "method" -> "method"
    [] label = "status" -> "modified_status"
    [] OTHER -> "none"

LabelRank(label) ==
  CASE label = "handler" -> 1 [] label = "method" -> 2 [] label = "status" -> 3
    [] OTHER -> 0

LabelledFactories == {"latency", "request_size", "response_size", "combined_size"}

\* C8: the label names and Info attribute names a factory resolved from
\* its three flags have equal length, correspond position by position
\* (handler/modified_handler, method/method, status/modified_status),
\* hold a label iff its flag is set, and keep the order handler, method,
\* status.
C8_LabelListsAgree ==
  (lastCall.factory \in LabelledFactories /\ lastCall.closure /= None) =>
    LET L == lastCall.closure[1].label_names
        A == lastCall.closure[1].info_attribute_names
        f == lastCall.flags
    IN /\ Len(L) = Len(A)
       /\ \A i \in 1..Len(L) : LabelRank(L[i]) > 0 /\ A[i] = AttrOfLabel(L[i])
       /\ ("handler" \in Range(L)) <=> f[1]
       /\ ("method" \in Range(L)) <=> f[2]
       /\ ("status" \in Range(L)) <=> f[3]
       /\ \A i, j \in 1..Len(L) : i < j => LabelRank(L[i]) < LabelRank(L[j])

\* A factory called with handler and status but not method
C8_Witness ==
  /\ lastCall.factory \in LabelledFactories
  /\ lastCall.closure /= None
  /\ lastCall.flags = <<TRUE, FALSE, TRUE>>
  /\ lastCall.closure[1].label_names = <<"handler", "status">>

\* ----------------------------------------------------------------- C10
\* C10: latency, request_size, response_size and combined_size create the
\* collector with label names iff a flag is set; every call a closure
\* makes on a collector without label names goes to its single unlabelled
\* series, and every call on one with label names selects the child whose
\* i-th value is the Info attribute belonging to the collector's i-th label
\* name (also for full's low-resolution histogram, labelled method, status,
\* handler); the four closures write to their own collector only.
C10_LabelledSeries ==
  /\ (lastCall.factory \in LabelledFactories /\ lastCall.closure /= None) =>
       LET c == lastCall.closure[1]
           f == lastCall.flags
       IN /\ registry[c.metric].labelnames = c.label_names
          /\ (registry[c.metric].labelnames /= <<>>) <=> (f[1] \/ f[2] \/ f[3])
  /\ last.closure /= None =>
       \A i \in 1..Len(last.ops) :
         LET o == last.ops[i]
             names == registry[o.metric].labelnames
         IN /\ LastKind \in LabelledFactories => o.metric = LastClosure.metric
            /\ Len(o.labels) = Len(names)
            /\ \A k \in 1..Len(names) : o.labels[k] = LastInfo[AttrOfLabel(names[k])]

\* full's closure has observed on the low-resolution histogram
C10_Witness ==
  /\ LastKind = "full"
  /\ Len(RecordingsOn(last.ops, LATENCY_LOWR)) = 1
  /\ RecordingsOn(last.ops, LATENCY_LOWR)[1].labels = <<"GET", "2xx", "/b">>

\* ================================================== SpecBuckets and C6
\* latency and full called with any bucket tuples.
NextBuckets ==
  \/ /\ calls < MaxFactoryCalls
     /\ \E b \in BucketTuples : CallLatency(DEFAULT_LATENCY, TRUE, TRUE, TRUE, b)
  \/ /\ calls < MaxFactoryCalls
     /\ \E hb, lb \in BucketTuples : CallFull(hb, lb)

SpecBuckets == Init /\ [][NextBuckets]_vars

\* C6: every bucket sequence latency or full hands to the Histogram
\* constructor ends in positive infinity; it is the supplied tuple followed
\* by one positive infinity when the supplied tuple does not end in it, and
\* the supplied tuple itself when it does; normalising it again changes
\* nothing.
C6_BucketsEndInInf ==
  lastCall.factory \in {"latency", "full"} =>
    /\ Len(lastCall.handed) <= Len(lastCall.supplied)
    /\ \A i \in 1..Len(lastCall.handed) :
         LET sup == lastCall.supplied[i]
             b == lastCall.handed[i]
         IN /\ Len(sup) > 0
            /\ b[Len(b)] = INF
            /\ sup[Len(sup)] /= INF => b = sup \o <<INF>>
            /\ sup[Len(sup)] = INF => b = sup
            /\ AppendInf(b) = b

\* full returned a closure, given one tuple that ends in infinity and one
\* that does not
C6_Witness ==
  /\ lastCall.factory = "full"
  /\ lastCall.exc = NoExc
  /\ lastCall.supplied = <<<<1, INF>>, <<1, 2>>>>
  /\ lastCall.handed = <<<<1, INF>>, <<1, 2, INF>>>>

\* ====================================================== SpecReg and C7
RegNames == {DEFAULT_LATENCY, IN_SIZE}
RegFlags == {<<FALSE, FALSE, FALSE>>, <<TRUE, TRUE, TRUE>>}
RegInfos ==
  {Info(Request(NoHeaders), Some(Response(NoHeaders)), "GET", "/a", "2xx", 3),
   Info(Request(CONTENT_LENGTH :> <<"1", "2">>),
        Some(Response(CONTENT_LENGTH :> <<" ", "7">>)), "GET", "/a", "2xx", 3)}

\* The factories called under metric names that may collide, among
\* themselves and with full's, interleaved with invocations.
NextReg ==
  \/ /\ calls < MaxFactoryCalls
     /\ \E n \in RegNames, f \in RegFlags : CallLatency(n, f[1], f[2], f[3], <<1, 2>>)
  \/ /\ calls < MaxFactoryCalls
     /\ \E n \in RegNames, f \in RegFlags : CallRequestSize(n, f[1], f[2], f[3])
  \/ /\ calls < MaxFactoryCalls
     /\ \E n \in RegNames, f \in RegFlags : CallResponseSize(n, f[1], f[2], f[3])
  \/ /\ calls < MaxFactoryCalls
     /\ \E n \in RegNames, f \in RegFlags : CallCombinedSize(n, f[1], f[2], f[3])
  \/ /\ calls < MaxFactoryCalls
     /\ CallFull(<<1, 2>>, <<1>>)
  \/ /\ invocations < MaxInvocations
     /\ \E c \in closures, info \in RegInfos : Invoke(c, info)

SpecReg == Init /\ [][NextReg]_vars

\* The collector names a closure's factory registered
NamesOf(c) == IF c.kind = "full" THEN FullNames ELSE {c.metric}

Untouched(collector) ==
  \A k \in DOMAIN collector.children :
    collector.children[k] = ZeroChild(collector.type)

\* A factory call that would register a name already registered
DuplicateCall == calls' = calls + 1 /\ lastCall'.duplicate

\* It raises, returns no closure, leaves every collector registered before
\* as it was, and what it did register holds no sample
FailsAtConstruction ==
  /\ lastCall'.exc /= NoExc
  /\ lastCall'.closure = None
  /\ closures' = closures
  /\ \A n \in DOMAIN registry : registry'[n] = registry[n]
  /\ \A n \in DOMAIN registry' \ DOMAIN registry : Untouched(registry'[n])
  /\ UNCHANGED <<invocations, last>>

\* C7: a factory call that would register a collector under a name already
\* registered fails at construction: it raises, returns no closure and
\* records nothing; and the names of every closure returned stay
\* registered, so that a second call of full, or of a factory with the same
\* metric_name, is such a call.
C7_DuplicateFailsAtConstruction ==
  /\ [][DuplicateCall => FailsAtConstruction]_vars
  /\ [](\A c \in closures : NamesOf(c) \subseteq DOMAIN registry)

\* full called after its closure has recorded: the second call fails
C7_Witness ==
  /\ lastCall.factory = "full"
  /\ lastCall.duplicate
  /\ lastCall.exc = "ValueError"
  /\ FullClosure \in closures
  /\ registry[TOTAL].children[<<>>].value > 0

\* ===================================================== SpecConc and C9
ConcInfos ==
  {Info(rq, rs, "GET", "/a", "2xx", 3) :
     rq \in {Request(h) : h \in HeadersOf({<<"1", "2">>, <<"a">>})},
     rs \in {None} \cup {Some(Response(h)) : h \in HeadersOf({<<" ", "7">>})}}

\* The statements of a closure's body that call a collector: full's five,
\* the single one of the others
NumStatements(c) == IF c.kind = "full" THEN 5 ELSE 1

Statement(c, k, info) ==
  IF c.kind = "full" THEN FullStatement(k, info) ELSE Instrumentation(c, info)

\* The invocation u has called a collector and has not ended
InFlight(u) == threads[u].pc > 0 /\ (threads[u].pc > 1 \/ threads[u].done > 0)

\* A request completes and its middleware invokes the closure c; overlapped
\* notes whether the invocation calls a collector while another is in flight
Start(c, info) ==
  /\ Len(threads) < MaxThreads
  /\ c \in closures
  /\ threads' = Append(threads, [closure |-> c, info |-> info, pc |-> 1,
                                 done |-> 0, exc |-> NoExc, overlapped |-> FALSE])
  /\ UNCHANGED <<registry, closures, calls, lastCall, invocations, last, tally>>

\* The invocation t makes its next call on a collector (each such call is
\* atomic in prometheus_client), or passes to its next statement, or ends:
\* pc = 0
ThreadStep(t) ==
  /\ t \in DOMAIN threads
  /\ threads[t].pc > 0
  /\ LET th == threads[t]
         r == Statement(th.closure, th.pc, th.info)
     IN IF th.done < Len(r.ops)
        THEN /\ registry' = ApplyOp(registry, r.ops[th.done + 1])
             /\ threads' = [threads EXCEPT
                  ![t].done = @ + 1,
                  ![t].overlapped = @ \/ \E u \in DOMAIN threads : InFlight(u) /\ u /= t]
        ELSE /\ registry' = registry
             /\ threads' = [threads EXCEPT
                  ![t].done = 0,
                  ![t].exc = r.exc,
                  ![t].pc = IF r.exc /= NoExc \/ th.pc = NumStatements(th.closure)
                            THEN 0 ELSE th.pc + 1]
  /\ UNCHANGED <<closures, calls, lastCall, invocations, last, tally>>

\* full and latency are constructed at startup; then requests complete
\* concurrently.
NextConc ==
  \/ /\ calls < MaxFactoryCalls
     /\ CallFull(<<1, 2>>, <<1>>)
  \/ /\ calls < MaxFactoryCalls
     /\ CallLatency(DEFAULT_LATENCY, TRUE, TRUE, TRUE, <<1, 2>>)
  \/ \E c \in closures, info \in ConcInfos : Start(c, info)
  \/ \E t \in 1..MaxThreads : ThreadStep(t)

SpecConc == Init /\ [][NextConc]_vars

\* The registry as the factories left it: every collector without samples
Fresh(reg) ==
  [n \in DOMAIN reg |->
     NewCollector(reg[n].type, reg[n].labelnames, reg[n].buckets)]

\* The invocations ths[1], ths[2], ... run one after another on reg
RECURSIVE OneAfterAnother(_, _)
OneAfterAnother(reg, ths) ==
  IF Len(ths) = 0 THEN reg
  ELSE OneAfterAnother(
         ApplyOps(reg, Instrumentation(ths[1].closure, ths[1].info).ops), Tail(ths))

FullThreads == {t \in DOMAIN threads : threads[t].closure.kind = "full"}

\* What an invocation of full adds to the byte counters
InIncrement(info) ==
  LET rq == RequestCL(info)
  IN IF rq = None \/ Malformed(rq) \/ ParsedOr0(rq) < 0 THEN 0 ELSE ParsedOr0(rq)

OutIncrement(info) ==
  LET rq == RequestCL(info)
      rs == ResponseCL(info)
  IN IF Malformed(rq) \/ ParsedOr0(rq) < 0 \/ rs = None \/ Malformed(rs)
        \/ ParsedOr0(rs) < 0
     THEN 0 ELSE ParsedOr0(rs)

RECURSIVE SumOver(_, _)
SumOver(f, keys) ==
  IF keys = {} THEN 0
  ELSE LET k == CHOOSE x \in keys : TRUE IN f[k] + SumOver(f, keys \ {k})

\* C9: when concurrent invocations sharing collectors have all ended,
\* whatever the interleaving of their calls on the collectors, the
\* collectors are as if the invocations had run one after another, each
\* invocation ended as it would alone, and for full the request counter is
\* the number of invocations and each byte counter the sum of the
\* increments.
C9_ConcurrentAsSequential ==
  (\A t \in DOMAIN threads : threads[t].pc = 0) =>
    /\ registry = OneAfterAnother(Fresh(registry), threads)
    /\ \A t \in DOMAIN threads :
         threads[t].exc = Instrumentation(threads[t].closure, threads[t].info).exc
    /\ FullClosure \in closures =>
         /\ registry[TOTAL].children[<<>>].value = Cardinality(FullThreads)
         /\ registry[IN_SIZE].children[<<>>].value =
              SumOver([t \in FullThreads |-> InIncrement(threads[t].info)], FullThreads)
         /\ registry[OUT_SIZE].children[<<>>].value =
              SumOver([t \in FullThreads |-> OutIncrement(threads[t].info)], FullThreads)

\* Two invocations of full's closure have ended, each having called a
\* collector while the other was in flight
C9_Witness ==
  /\ Len(threads) = 2
  /\ \A t \in DOMAIN threads :
       threads[t].pc = 0 /\ threads[t].closure.kind = "full" /\ threads[t].overlapped
  /\ registry[TOTAL].children[<<>>].value = 2
  /\ registry[IN_SIZE].children[<<>>].value = 24

====
